---- MODULE Spec2Model ----
(***************************************************************************)
(* Model of the recurring-job scheduler of edge/misc-utils (lib/cycle):    *)
(* prepare() (job supervisor), run() (cycle orchestrator), sequence().     *)
(*                                                                         *)
(* One step of the model is one macrotask of the JavaScript event loop     *)
(* together with the microtasks it triggers: a call of a runnable up to    *)
(* its first await, the settlement of a task promise with the whole        *)
(* continuation chain behind it, or the firing of a timer callback.        *)
(* Time is abstract: an armed timer may fire at any later step.            *)
(***************************************************************************)
EXTENDS Integers, Sequences, FiniteSets, TLC

\* ------------------------------------------------------------------ bounds
\* the jobs; a timeout or defer of 0 stands for an absent (falsy) value
Jobs == {1, 2}
\* the jobs whose prepared runnable is called by hand in SpecPrepare
PJobs == {1}
\* most direct invocations of the prepared runnable in a behaviour
MaxInv == 3
\* most ticks of one job under run() in a behaviour
MaxTicks == 2
\* opaque errors a task body may fail with
TaskErrors == {"e1", "e2"}
\* most runnables passed to sequence()
MaxSteps == 3
\* most invocations of the composed runnable in a behaviour
MaxSeqInv == 2

VARIABLES
    cfg,        \* per job: how the caller built the job and called prepare()
    status,     \* per job: job.status of the descriptor prepare() closes over
    inv,        \* per job: the invocations of job.do made so far
    called,     \* run(jobs) has been called
    work,       \* per job: status of the working copy run() makes
    interval,   \* per job: the repeating timer of run()
    deferT,     \* per job: the one-shot defer timer of run()
    runP,       \* the promise returned by run()
    failLog,    \* the errors fail() was called with, in order
    seqN,       \* doFns.length of the runnable built by sequence(...doFns)
    seq         \* the invocations of that runnable made so far

vars == <<cfg, status, inv, called, work, interval, deferT, runP, failLog, seqN, seq>>

\* the state of prepare() and run()
cycleVars == <<cfg, status, inv, called, work, interval, deferT, runP, failLog>>

\* ------------------------------------------------------------------ values
JobName(j) == IF j = 1 THEN "A" ELSE "B"

NoErr == [kind |-> "none", jobName |-> "", status |-> "", tag |-> ""]

TaskError(e) == [kind |-> "TaskError", jobName |-> "", status |-> "", tag |-> e]

PreviousExecutionNotCompleteErrorBad(jobName, st) ==
    [kind |-> "PreviousExecutionNotCompleteError", jobName |-> jobName,
     status |-> "pending", tag |-> ""]

PreviousExecutionNotCompleteError(jobName, st) ==
    [kind |-> "PreviousExecutionNotCompleteError", jobName |-> jobName,
     status |-> st, tag |-> ""]

TimeoutErrorBad(jobName, st) ==
    [kind |-> "TimeoutError", jobName |-> jobName, status |-> "error", tag |-> "timed out"]

TimeoutError(jobName, st) ==
    [kind |-> "TimeoutError", jobName |-> jobName, status |-> st, tag |-> "timed out"]

\* `if (job.timeout)` / `if (job.defer)`: undefined and 0 are both falsy
HasTimeout(j) == cfg[j].timeout # 0
HasDeferNever(j) == FALSE

HasDefer(j) == cfg[j].defer # 0

\* an invocation of job.do that has not been made yet has no record; this is
\* the record before any field is written
BlankInv(via, entry) ==
    [via |-> via, entry |-> entry, admitted |-> FALSE, st |-> "awaiting", err |-> NoErr,
     task |-> "none", taskErr |-> NoErr, timer |-> "none", race |-> "none",
     before |-> 0, beforeStatus |-> "", beforeTask |-> "", after |-> 0, afterStatus |-> "",
     onError |-> 0, onErrorArg |-> NoErr, onErrorStatus |-> ""]

\* ------------------------------------------------------------- promises
\* reject() of a promise: only a pending promise changes state
RejectOverwrites(p, err) == [state |-> "rejected", err |-> err]

RejectResolves(p, err) == IF p.state = "pending" THEN [state |-> "resolved", err |-> NoErr] ELSE p

Reject(p, err) == IF p.state = "pending" THEN [state |-> "rejected", err |-> err] ELSE p

\* ------------------------------------------------------------- prepare()
OverlapsNever(j) == FALSE

OverlapsOnError(j) == status[j] \in {"running", "error"}

\* the overlap check `job.status === 'running'`
Overlaps(j) == status[j] = "running"

SuccessStatusBad == "running"

SuccessStatus == "pending"

FailureStatus == "error"

RouteErrorRethrows(j, r, err, st) == [r EXCEPT !.st = "rejected", !.err = err]

\* `if (onError) onError(job, err) else throw err`, r being the invocation
\* and st the job.status the callback sees
RouteError(j, r, err, st) ==
    IF cfg[j].onError
    THEN [r EXCEPT !.st = "resolved", !.onError = @ + 1, !.onErrorArg = err,
                   !.onErrorStatus = st]
    ELSE [r EXCEPT !.st = "rejected", !.err = err]

EnterGuarded(j, via) ==
    LET r == BlankInv(via, status[j]) IN
    IF Overlaps(j)
    THEN RouteError(j, r, PreviousExecutionNotCompleteError(JobName(j), status[j]), status[j])
    ELSE [r EXCEPT !.admitted = TRUE,
                   !.task = "running",
                   !.timer = IF HasTimeout(j) THEN "armed" ELSE "none",
                   !.race = IF HasTimeout(j) THEN "pending" ELSE "none"]

EnterRunsRejected(j, via) ==
    LET r == BlankInv(via, status[j]) IN
    IF ~cfg[j].wrapped
    THEN [r EXCEPT !.admitted = TRUE, !.task = "running"]
    ELSE IF Overlaps(j)
    THEN [RouteError(j, r, PreviousExecutionNotCompleteError(JobName(j), status[j]), status[j])
             EXCEPT !.task = "running"]
    ELSE [r EXCEPT !.admitted = TRUE,
                   !.before = IF cfg[j].before THEN 1 ELSE 0,
                   !.beforeStatus = IF cfg[j].before THEN status[j] ELSE "",
                   !.beforeTask = IF cfg[j].before THEN r.task ELSE "",
                   !.task = "running",
                   !.timer = IF HasTimeout(j) THEN "armed" ELSE "none",
                   !.race = IF HasTimeout(j) THEN "pending" ELSE "none"]

\* the runnable from its call to its first await (or to its end when the
\* overlap check rejects it); for a job whose do is not wrapped, job.do is
\* the task itself
Enter(j, via) ==
    LET r == BlankInv(via, status[j]) IN
    IF ~cfg[j].wrapped
    THEN [r EXCEPT !.admitted = TRUE, !.task = "running"]
    ELSE IF Overlaps(j)
    THEN RouteError(j, r, PreviousExecutionNotCompleteError(JobName(j), status[j]), status[j])
    ELSE [r EXCEPT !.admitted = TRUE,
                   !.before = IF cfg[j].before THEN 1 ELSE 0,
                   !.beforeStatus = IF cfg[j].before THEN status[j] ELSE "",
                   !.beforeTask = IF cfg[j].before THEN r.task ELSE "",
                   !.task = "running",
                   !.timer = IF HasTimeout(j) THEN "armed" ELSE "none",
                   !.race = IF HasTimeout(j) THEN "pending" ELSE "none"]

StatusAfterEnter(j) ==
    IF cfg[j].wrapped /\ ~Overlaps(j) THEN "running" ELSE status[j]

ClearTimeoutForgets(t) == t

\* `.finally(() => { if (t) clearTimeout(t) })`: a timer that has not fired
\* is cancelled
ClearTimeout(t) == IF t = "armed" THEN "cleared" ELSE t

StillAwaitedAlways(r) == TRUE

\* the continuation behind the await runs only if the awaited promise is
\* settled by this event: res() on a promise the timer already rejected is
\* a no-op
StillAwaited(r) == r.st = "awaiting" /\ r.race \in {"none", "pending"}

OnSuccessSkipsAfter(j, r) == [r EXCEPT !.st = "resolved"]

\* the try block after the await: `job.status = 'pending'; after && after(job)`
OnSuccess(j, r) ==
    [r EXCEPT !.st = "resolved",
              !.after = IF cfg[j].after THEN @ + 1 ELSE @,
              !.afterStatus = IF cfg[j].after THEN SuccessStatus ELSE @]

OnFailureCallsAfter(j, r, err) ==
    [RouteError(j, r, err, FailureStatus) EXCEPT !.after = @ + 1]

\* the catch block: `job.status = 'error'`, then the error is routed
OnFailure(j, r, err) == RouteError(j, r, err, FailureStatus)

\* ------------------------------------------------------------- run()
\* fail(err): `timeouts.forEach(clearInterval); reject(err)`; only the
\* timers pushed so far are in `timeouts`
ClearIntervals(iv) == [j \in Jobs |-> IF iv[j] = "armed" THEN "cleared" ELSE iv[j]]

OriginalAfterCopyInPlace(j) == "pending"

\* `jobs.map(job => ({ ...job, status: 'pending' }))`: the status of the
\* caller's descriptor after the copy has been made
OriginalAfterCopy(j) == status[j]

\* what a step does to the state of run() when the invocation r of job j has
\* just been updated: a rejection of a tick's promise reaches `.catch(fail)`
AfterStep(r, old, iv) ==
    IF r.via = "run" /\ r.st = "rejected" /\ old # "rejected"
    THEN /\ interval' = ClearIntervals(iv)
         /\ runP' = Reject(runP, r.err)
         /\ failLog' = Append(failLog, r.err)
    ELSE /\ interval' = iv
         /\ UNCHANGED <<runP, failLog>>

\* one call of job.do: by a tick of run() or directly by a caller
Invoke(j, via, iv) ==
    /\ Len(inv[j]) < (IF via = "run" THEN MaxTicks ELSE MaxInv)
    /\ LET r == Enter(j, via) IN
        /\ inv' = [inv EXCEPT ![j] = Append(@, r)]
        /\ status' = [status EXCEPT ![j] = StatusAfterEnter(j)]
        /\ AfterStep(r, "none", iv)

\* ------------------------------------------------------------- actions
\* a caller invokes the prepared runnable itself
DirectInvoke(j) ==
    /\ cfg[j].wrapped
    /\ Invoke(j, "direct", interval)
    /\ UNCHANGED <<cfg, called, work, deferT, seqN, seq>>

\* run(jobs): copies, then per job either the defer timer or startJob
StartRun ==
    /\ ~called
    /\ called' = TRUE
    /\ work' = [j \in Jobs |-> "pending"]
    /\ deferT' = [j \in Jobs |-> IF HasDefer(j) THEN "armed" ELSE "none"]
    /\ interval' = [j \in Jobs |-> IF HasDefer(j) THEN interval[j] ELSE "armed"]
    /\ inv' = [j \in Jobs |-> IF HasDefer(j) THEN inv[j] ELSE Append(inv[j], Enter(j, "run"))]
    /\ status' = [j \in Jobs |-> IF ~HasDefer(j) /\ cfg[j].wrapped /\ ~Overlaps(j)
                                  THEN "running" ELSE OriginalAfterCopy(j)]
    /\ UNCHANGED <<cfg, runP, failLog, seqN, seq>>

\* setTimeout(startJob, job.defer) fires: the interval is armed, first tick
DeferElapsed(j) ==
    /\ deferT[j] = "armed"
    /\ deferT' = [deferT EXCEPT ![j] = "fired"]
    /\ Invoke(j, "run", [interval EXCEPT ![j] = "armed"])
    /\ UNCHANGED <<cfg, called, work, seqN, seq>>

\* setInterval(tick, job.interval) fires
IntervalTick(j) ==
    /\ interval[j] = "armed"
    /\ Invoke(j, "run", interval)
    /\ UNCHANGED <<cfg, called, work, deferT, seqN, seq>>

\* the task promise of invocation i of job j resolves
TaskSucceed(j, i) ==
    /\ i \in DOMAIN inv[j]
    /\ inv[j][i].task = "running"
    /\ LET r0 == inv[j][i]
           r1 == [r0 EXCEPT !.task = "succeeded",
                            !.timer = ClearTimeout(@)]
           awaited == StillAwaited(r0)
           r2 == IF ~cfg[j].wrapped THEN [r1 EXCEPT !.st = "resolved"]
                 ELSE IF awaited
                 THEN OnSuccess(j, [r1 EXCEPT !.race = IF @ = "pending" THEN "resolved" ELSE @])
                 ELSE r1
       IN /\ inv' = [inv EXCEPT ![j][i] = r2]
          /\ status' = [status EXCEPT ![j] =
                            IF cfg[j].wrapped /\ awaited THEN SuccessStatus ELSE @]
          /\ AfterStep(r2, r0.st, interval)
    /\ UNCHANGED <<cfg, called, work, deferT, seqN, seq>>

\* the task promise of invocation i of job j rejects with e.  With a timeout
\* the task is only chained by `.then(res).finally(..)`: the timer is
\* cleared, neither res nor rej is called, the race never settles.
TaskFail(j, i, e) ==
    /\ i \in DOMAIN inv[j]
    /\ inv[j][i].task = "running"
    /\ LET r0 == inv[j][i]
           r1 == [r0 EXCEPT !.task = "failed", !.taskErr = TaskError(e),
                            !.timer = ClearTimeout(@)]
           caught == cfg[j].wrapped /\ r0.st = "awaiting" /\ r0.race = "none"
           r2 == IF ~cfg[j].wrapped THEN [r1 EXCEPT !.st = "rejected", !.err = TaskError(e)]
                 ELSE IF caught THEN OnFailure(j, r1, TaskError(e))
                 ELSE r1
       IN /\ inv' = [inv EXCEPT ![j][i] = r2]
          /\ status' = [status EXCEPT ![j] = IF caught THEN FailureStatus ELSE @]
          /\ AfterStep(r2, r0.st, interval)
    /\ UNCHANGED <<cfg, called, work, deferT, seqN, seq>>

\* the setTimeout of invocation i of job j fires: rej(new TimeoutError(..))
TimeoutElapse(j, i) ==
    /\ i \in DOMAIN inv[j]
    /\ inv[j][i].timer = "armed"
    /\ LET r0 == inv[j][i]
           err == TimeoutError(JobName(j), status[j])
           r1 == [r0 EXCEPT !.timer = "fired", !.race = "rejected"]
           r2 == OnFailure(j, r1, err)
       IN /\ inv' = [inv EXCEPT ![j][i] = r2]
          /\ status' = [status EXCEPT ![j] = FailureStatus]
          /\ AfterStep(r2, r0.st, interval)
    /\ UNCHANGED <<cfg, called, work, deferT, seqN, seq>>

\* ------------------------------------------------------------- specifications
Idle == [wrapped |-> FALSE, timeout |-> 0, defer |-> 0, onError |-> FALSE,
         before |-> FALSE, after |-> FALSE]

InitCommon ==
    /\ inv = [j \in Jobs |-> <<>>]
    /\ called = FALSE
    /\ work = [j \in Jobs |-> "none"]
    /\ interval = [j \in Jobs |-> "unarmed"]
    /\ deferT = [j \in Jobs |-> "none"]
    /\ runP = [state |-> "pending", err |-> NoErr]
    /\ failLog = <<>>

\* no runnable has been built by sequence()
InitNoSeq == seqN = 0 /\ seq = <<>>

\* prepare(job, before?, after?, onError?) called by hand on one job
InitPrepare ==
    /\ \E t \in {0, 50}, oe \in BOOLEAN, b \in BOOLEAN, a \in BOOLEAN :
          cfg = [j \in Jobs |-> IF j \in PJobs
                                THEN [wrapped |-> TRUE, timeout |-> t, defer |-> 0,
                                      onError |-> oe, before |-> b, after |-> a]
                                ELSE Idle]
    /\ \E s \in {"unset", "pending"} :
          status = [j \in Jobs |-> IF j \in PJobs THEN s ELSE "unset"]
    /\ InitCommon
    /\ InitNoSeq

NextPrepare ==
    \/ \E j \in PJobs : DirectInvoke(j)
    \/ \E j \in PJobs : \E i \in DOMAIN inv[j] : TaskSucceed(j, i)
    \/ \E j \in PJobs : \E i \in DOMAIN inv[j], e \in TaskErrors : TaskFail(j, i, e)
    \/ \E j \in PJobs : \E i \in DOMAIN inv[j] : TimeoutElapse(j, i)

SpecPrepare == InitPrepare /\ [][NextPrepare]_vars

\* the event loop runs the callback of every setTimeout that stays armed;
\* nothing makes a task settle or a caller call
SpecPrepareLive ==
    /\ InitPrepare /\ [][NextPrepare]_vars
    /\ \A j \in PJobs : \A i \in 1..MaxInv : WF_vars(TimeoutElapse(j, i))

\* run(jobs) on two jobs, each either a bare task or a prepared runnable
RunConfigs ==
    { c \in [wrapped : BOOLEAN, timeout : {0, 50}, defer : {0, 500},
             onError : BOOLEAN, before : {TRUE}, after : {TRUE}] :
        c.onError => c.wrapped }

Init ==
    /\ cfg \in [Jobs -> RunConfigs]
    /\ status = [j \in Jobs |-> "unset"]
    /\ InitCommon
    /\ InitNoSeq

Next ==
    \/ StartRun
    \/ \E j \in Jobs : DeferElapsed(j)
    \/ \E j \in Jobs : IntervalTick(j)
    \/ \E j \in Jobs : \E i \in DOMAIN inv[j] : TaskSucceed(j, i)
    \/ \E j \in Jobs : \E i \in DOMAIN inv[j], e \in TaskErrors : TaskFail(j, i, e)
    \/ \E j \in Jobs : \E i \in DOMAIN inv[j] : TimeoutElapse(j, i)

Spec == Init /\ [][Next]_vars

\* ------------------------------------------------------------- sequence()
Steps == 1..seqN

\* an invocation of the composed runnable before its loop has started; the
\* steps are numbered from 1 (doFns[k - 1])
BlankSeq ==
    [st |-> "awaiting", err |-> NoErr, i |-> 0,
     step |-> [k \in Steps |-> "idle"], stepErr |-> [k \in Steps |-> NoErr],
     calls |-> [k \in Steps |-> 0], order |-> <<>>]

NextIndexSkips(k) == k + 2

\* the `i++` of the loop
NextIndex(k) == k + 1

\* the loop from its test `i < doFns.length` for step k to the next await:
\* `await doFns[i]()` calls the step, or the async function returns
SeqLoop(s, k) ==
    IF k \in Steps
    THEN [s EXCEPT !.i = k, !.step[k] = "running", !.calls[k] = @ + 1,
                   !.order = Append(@, k)]
    ELSE [s EXCEPT !.i = k, !.st = "resolved"]

SeqStepFailedContinues(s, k, e) ==
    SeqLoop([s EXCEPT !.step[k] = "failed", !.stepErr[k] = TaskError(e)], NextIndex(k))

\* the awaited step k rejects: the await throws out of the async function
SeqStepFailed(s, k, e) ==
    [s EXCEPT !.step[k] = "failed", !.stepErr[k] = TaskError(e),
              !.st = "rejected", !.err = TaskError(e)]

\* the composed runnable is called
SeqInvoke ==
    /\ Len(seq) < MaxSeqInv
    /\ seq' = Append(seq, SeqLoop(BlankSeq, 1))
    /\ UNCHANGED <<cycleVars, seqN>>

\* step k of invocation q resolves: the loop goes on
StepSucceed(q, k) ==
    /\ q \in DOMAIN seq /\ k \in Steps
    /\ seq[q].step[k] = "running"
    /\ seq' = [seq EXCEPT ![q] = SeqLoop([@ EXCEPT !.step[k] = "succeeded"], NextIndex(k))]
    /\ UNCHANGED <<cycleVars, seqN>>

\* step k of invocation q rejects with e
StepFail(q, k, e) ==
    /\ q \in DOMAIN seq /\ k \in Steps
    /\ seq[q].step[k] = "running"
    /\ seq' = [seq EXCEPT ![q] = SeqStepFailed(@, k, e)]
    /\ UNCHANGED <<cycleVars, seqN>>

\* sequence(r1..rn) for some n, no job being run
InitSeq ==
    /\ seqN \in 0..MaxSteps
    /\ seq = <<>>
    /\ cfg = [j \in Jobs |-> Idle]
    /\ status = [j \in Jobs |-> "unset"]
    /\ InitCommon

NextSeq ==
    \/ SeqInvoke
    \/ \E q \in DOMAIN seq, k \in Steps : StepSucceed(q, k)
    \/ \E q \in DOMAIN seq, k \in Steps, e \in TaskErrors : StepFail(q, k, e)

SpecSeq == InitSeq /\ [][NextSeq]_vars

\* ------------------------------------------------------------- properties
Wrapped == {j \in Jobs : cfg[j].wrapped}

\* executions of the task of job j that have started and not settled
InFlight(j) == {i \in DOMAIN inv[j] : inv[j][i].task = "running"}

\* those of them some invocation is still waiting for
Awaited(j) == {i \in InFlight(j) : inv[j][i].st = "awaiting"}

\* invocation i of job j is the latest one that passed the overlap check
LastAdmitted(j, i) ==
    /\ inv[j][i].admitted
    /\ \A k \in DOMAIN inv[j] : k > i => ~inv[j][k].admitted

NoTaskFailed(j) == \A i \in DOMAIN inv[j] : inv[j][i].task # "failed"

\* C1 (as stated): at most one execution of a supervised job's do is in
\* flight at any time, with or without a timeout.
C1_AtMostOneInFlight ==
    \A j \in Wrapped : Cardinality(InFlight(j)) <= 1

\* C1 (amended): at most one execution of a supervised job's do that an
\* invocation is still waiting for is in flight at any time, and for a job
\* without a timeout at most one execution is in flight at all; a task
\* abandoned by a timeout may run alongside the next admitted execution.
C1_AtMostOneAwaited ==
    \A j \in Wrapped :
        /\ Cardinality(Awaited(j)) <= 1
        /\ ~HasTimeout(j) => Cardinality(InFlight(j)) <= 1

\* an execution is in flight and a later tick was turned away by the check
C1_Witness ==
    \E j \in Wrapped : \E i \in InFlight(j) : \E k \in DOMAIN inv[j] :
        k > i /\ ~inv[j][k].admitted /\ inv[j][i].st = "awaiting"

\* C2 (as stated): once a tick of run(jobs) has failed unhandled, no further
\* tick occurs for any job of that run.
C2_NoTickAfterFailure ==
    [][failLog # <<>> => \A j \in Jobs : Len(inv'[j]) = Len(inv[j])]_vars

\* C3: a call of the prepared runnable made while job.status is running and
\* without onError does not call the task (nor before) and fails with a
\* PreviousExecutionNotCompleteError carrying the job's name and `running`.
C3_OverlapRaises ==
    \A j \in Wrapped : \A i \in DOMAIN inv[j] :
        (inv[j][i].entry = "running" /\ ~cfg[j].onError) =>
            /\ inv[j][i].task = "none"
            /\ inv[j][i].before = 0
            /\ ~inv[j][i].admitted
            /\ inv[j][i].st = "rejected"
            /\ inv[j][i].err = [kind |-> "PreviousExecutionNotCompleteError",
                                jobName |-> JobName(j), status |-> "running", tag |-> ""]

C3_Witness ==
    \E j \in Wrapped : \E i \in DOMAIN inv[j] :
        inv[j][i].entry = "running" /\ ~cfg[j].onError /\ inv[j][i].st = "rejected"

\* C4 (as stated): with onError, with or without a timeout, when the task of
\* an admitted invocation fails (no timeout having elapsed first) the
\* invocation completes normally and onError got the task's error, once.
C4_TaskFailureSoftFails ==
    \A j \in Wrapped : \A i \in DOMAIN inv[j] :
        (cfg[j].onError /\ inv[j][i].admitted /\ inv[j][i].task = "failed"
            /\ inv[j][i].timer # "fired") =>
            /\ inv[j][i].st = "resolved"
            /\ inv[j][i].onError = 1
            /\ inv[j][i].onErrorArg = inv[j][i].taskErr

\* C5 (as stated): an admitted invocation whose execution fails (task failure
\* or timeout first) sets job.status to error and, without onError, fails
\* with the original error.
C5_FailureSetsError ==
    \A j \in Wrapped : \A i \in DOMAIN inv[j] :
        (inv[j][i].admitted /\ (inv[j][i].task = "failed" \/ inv[j][i].timer = "fired")) =>
            /\ inv[j][i].st # "awaiting"
            /\ LastAdmitted(j, i) => status[j] = "error"
            /\ ~cfg[j].onError =>
                 /\ inv[j][i].st = "rejected"
                 /\ inv[j][i].err.kind = IF inv[j][i].timer = "fired"
                                         THEN "TimeoutError" ELSE "TaskError"
                 /\ inv[j][i].timer # "fired" => inv[j][i].err = inv[j][i].taskErr

\* C6: when the timeout timer of an invocation elapses before its task
\* settles, the execution fails with a TimeoutError carrying the job's name
\* and the status `running` (raised, or handed to onError when supplied),
\* and job.status becomes error.
C6_TimeoutError ==
    \A j \in Wrapped : \A i \in DOMAIN inv[j] :
        inv[j][i].timer = "fired" =>
            LET e == [kind |-> "TimeoutError", jobName |-> JobName(j),
                      status |-> "running", tag |-> "timed out"]
            IN /\ cfg[j].onError => /\ inv[j][i].st = "resolved"
                                    /\ inv[j][i].onError = 1
                                    /\ inv[j][i].onErrorArg = e
                                    /\ inv[j][i].onErrorStatus = "error"
               /\ ~cfg[j].onError => inv[j][i].st = "rejected" /\ inv[j][i].err = e
               /\ LastAdmitted(j, i) => status[j] = "error"

C6_Witness ==
    \E j \in Wrapped : \E i \in DOMAIN inv[j] :
        inv[j][i].timer = "fired" /\ inv[j][i].task = "running" /\ ~cfg[j].onError

\* C7 (as stated): for a job with no timeout whose task always succeeds, no
\* tick of any sequence of ticks raises PreviousExecutionNotCompleteError.
C7_NeverOverlapError ==
    \A j \in Wrapped : (~HasTimeout(j) /\ NoTaskFailed(j)) =>
        \A i \in DOMAIN inv[j] :
            inv[j][i].err.kind # "PreviousExecutionNotCompleteError"

\* C7 (amended): for a job with no timeout whose task always succeeds, a tick
\* made when no earlier invocation is still in flight is admitted (it does
\* not raise PreviousExecutionNotCompleteError), and the status only moves
\* unset/pending -> running -> pending.
C7_SequentialTicks ==
    [][\A j \in Wrapped : (~HasTimeout(j) /\ NoTaskFailed(j)') =>
          /\ (/\ Len(inv'[j]) = Len(inv[j]) + 1
              /\ \A i \in DOMAIN inv[j] : inv[j][i].st # "awaiting") =>
                 /\ inv'[j][Len(inv'[j])].admitted
                 /\ inv'[j][Len(inv'[j])].err = NoErr
                 /\ status[j] \in {"unset", "pending"}
                 /\ status'[j] = "running"
          /\ status'[j] # status[j] =>
                 <<status[j], status'[j]>> \in
                     {<<"unset", "running">>, <<"pending", "running">>,
                      <<"running", "pending">>}]_vars

\* a third tick was admitted after two ticks that each ran to success
C7_Witness ==
    \E j \in Wrapped :
        /\ ~HasTimeout(j) /\ Len(inv[j]) >= 3
        /\ inv[j][1].st = "resolved" /\ inv[j][1].task = "succeeded"
        /\ inv[j][2].st = "resolved" /\ inv[j][2].task = "succeeded"
        /\ inv[j][3].admitted

\* C8 (as stated): with onError no invocation ever fails: overlap
\* rejections, timeouts and task failures all reach onError and the
\* invocation completes normally.
C8_OnErrorAbsorbsAll ==
    \A j \in Wrapped : cfg[j].onError =>
        \A i \in DOMAIN inv[j] :
            /\ inv[j][i].st # "rejected"
            /\ (inv[j][i].entry = "running" \/ inv[j][i].timer = "fired"
                    \/ inv[j][i].task = "failed") =>
                 inv[j][i].st = "resolved" /\ inv[j][i].onError = 1

\* C9: when the task of an admitted invocation succeeds before any timeout
\* elapses, job.status is set to pending, after (if supplied) is called
\* once and sees the status pending, and onError is not called.
C9_SuccessSetsPending ==
    \A j \in Wrapped : \A i \in DOMAIN inv[j] :
        (inv[j][i].admitted /\ inv[j][i].task = "succeeded" /\ inv[j][i].timer # "fired") =>
            /\ inv[j][i].st = "resolved"
            /\ inv[j][i].after = (IF cfg[j].after THEN 1 ELSE 0)
            /\ cfg[j].after => inv[j][i].afterStatus = "pending"
            /\ inv[j][i].onError = 0
            /\ LastAdmitted(j, i) => status[j] = "pending"

C9_Witness ==
    \E j \in Wrapped : \E i \in DOMAIN inv[j] :
        /\ inv[j][i].admitted /\ inv[j][i].task = "succeeded"
        /\ inv[j][i].timer = "cleared" /\ cfg[j].after /\ inv[j][i].after = 1
        /\ status[j] = "pending"

\* C10: run(jobs) fails at most once, with the error of the first tick that
\* failed unhandled; later failures never change the reported error.
C10_FirstFailureOnly ==
    /\ failLog # <<>> => runP = [state |-> "rejected", err |-> failLog[1]]
    /\ failLog = <<>> => runP.state # "rejected"

\* a second tick failed with another error after the run had failed
C10_Witness ==
    Len(failLog) >= 2 /\ failLog[2] # failLog[1] /\ runP.state = "rejected"

\* C11: the promise returned by run(jobs) never resolves successfully: it is
\* pending, or rejected with the error of a tick that failed.
C11_NeverResolves ==
    /\ runP.state \in {"pending", "rejected"}
    /\ runP.state = "rejected" =>
         \E j \in Jobs : \E i \in DOMAIN inv[j] :
             /\ inv[j][i].via = "run"
             /\ inv[j][i].st = "rejected"
             /\ inv[j][i].err = runP.err

\* every job has ticked twice, every tick has completed, the run still pends
C11_Witness ==
    /\ called
    /\ runP.state = "pending"
    /\ \A j \in Jobs :
         /\ Len(inv[j]) >= 2
         /\ \A i \in DOMAIN inv[j] : inv[j][i].st = "resolved"

\* C12: under run(jobs) a job with a defer d > 0 gets no tick and has no
\* repeating timer until its defer has elapsed; a job without defer has got
\* its first tick as soon as run has been called.
C12_DeferDelaysStart ==
    \A j \in Jobs :
        /\ (cfg[j].defer # 0 /\ deferT[j] # "fired") =>
               inv[j] = <<>> /\ interval[j] = "unarmed"
        /\ (cfg[j].defer = 0 /\ called) =>
               /\ Len(inv[j]) >= 1
               /\ inv[j][1].via = "run"
               /\ deferT[j] = "none"

\* a deferred job still waits while the other job is at its second tick
C12_Witness ==
    /\ called
    /\ \E j \in Jobs, k \in Jobs :
         /\ cfg[j].defer # 0 /\ deferT[j] = "armed" /\ inv[j] = <<>>
         /\ cfg[k].defer = 0 /\ Len(inv[k]) >= 2

\* C13: under run(jobs) a job whose do was prepared with onError never
\* cancels the cycle: none of its ticks is rejected, and the run fails or a
\* timer is cleared only when a tick of a job without onError was rejected.
C13_SoftFailNeverCancels ==
    /\ \A j \in Jobs : cfg[j].onError =>
           \A i \in DOMAIN inv[j] : inv[j][i].st # "rejected"
    /\ (runP.state # "pending" \/ failLog # <<>> \/ \E j \in Jobs : interval[j] = "cleared") =>
           \E j \in Jobs : /\ ~cfg[j].onError
                           /\ \E i \in DOMAIN inv[j] : inv[j][i].st = "rejected"

\* both jobs have onError; an overlap, a timeout and a task failure have all
\* been handed to onError, and every timer is still armed
C13_Witness ==
    /\ \A j \in Jobs : cfg[j].onError /\ interval[j] = "armed"
    /\ runP.state = "pending"
    /\ \A kind \in {"PreviousExecutionNotCompleteError", "TimeoutError", "TaskError"} :
         \E j \in Jobs : \E i \in DOMAIN inv[j] :
             inv[j][i].onError = 1 /\ inv[j][i].onErrorArg.kind = kind

\* C14: run(jobs) never writes the status of the caller's descriptors: the
\* status of a descriptor whose do is a bare task never changes, the status
\* of a descriptor a prepared runnable closes over changes only when that
\* runnable acts, and the working copies have the status pending.
C14_RunNeverWritesStatus ==
    [][\A j \in Jobs :
          /\ ~cfg[j].wrapped => status'[j] = status[j]
          /\ status'[j] # status[j] => inv'[j] # inv[j]
          /\ called' => work'[j] = "pending"]_vars

\* a bare job has ticked and completed; its descriptor is as the caller left it
C14_Witness ==
    /\ called
    /\ \E j \in Jobs :
         /\ ~cfg[j].wrapped
         /\ status[j] = "unset" /\ work[j] = "pending"
         /\ \E i \in DOMAIN inv[j] : inv[j][i].st = "resolved"

\* C15: a tick of run(jobs) on a job whose do is not wrapped by prepare
\* always starts the task, with no overlap check and no timeout timer, even
\* when the job has a timeout and an earlier execution is in flight.
C15_TicksUnguarded ==
    \A j \in Jobs : ~cfg[j].wrapped =>
        \A i \in DOMAIN inv[j] :
            /\ inv[j][i].admitted
            /\ inv[j][i].task # "none"
            /\ inv[j][i].timer = "none"
            /\ inv[j][i].race = "none"
            /\ inv[j][i].err.kind \notin {"PreviousExecutionNotCompleteError", "TimeoutError"}

\* two executions of a bare job that has a timeout are in flight at once
C15_Witness ==
    \E j \in Jobs :
        ~cfg[j].wrapped /\ cfg[j].timeout # 0 /\ Cardinality(InFlight(j)) >= 2

\* C16: an invocation of the runnable returned by sequence(r1..rn) calls the
\* steps in the given order, each at most once and never two at a time, a
\* step only after the one before it has completed; when every step has
\* succeeded each has been called exactly once and the invocation has
\* completed successfully (at once and without any call when n = 0).
C16_SequenceInOrder ==
    \A q \in DOMAIN seq :
        LET s == seq[q] IN
        /\ \A p \in DOMAIN s.order : s.order[p] = p
        /\ \A k \in Steps : s.calls[k] <= 1
        /\ Cardinality({k \in Steps : s.step[k] = "running"}) <= 1
        /\ \A k \in Steps : (k > 1 /\ s.calls[k] > 0) => s.step[k - 1] = "succeeded"
        /\ (\A k \in Steps : s.step[k] = "succeeded") <=> s.st = "resolved"
        /\ s.st = "resolved" => \A k \in Steps : s.calls[k] = 1

\* a sequence of at least two steps has run to its end
C16_Witness ==
    /\ seqN >= 2
    /\ \E q \in DOMAIN seq : seq[q].st = "resolved" /\ Len(seq[q].order) = seqN

\* C17: when step k of an invocation of sequence(r1..rn) fails, the
\* invocation fails with that step's error, the steps before k have
\* completed and the steps after k are never called.
C17_SequenceStopsAtFailure ==
    \A q \in DOMAIN seq : \A k \in Steps :
        seq[q].step[k] = "failed" =>
            /\ seq[q].st = "rejected"
            /\ seq[q].err = seq[q].stepErr[k]
            /\ seq[q].err.kind = "TaskError"
            /\ \A m \in Steps : m < k => seq[q].step[m] = "succeeded"
            /\ \A m \in Steps : m > k => seq[q].calls[m] = 0 /\ seq[q].step[m] = "idle"

\* the second of at least three steps has failed
C17_Witness ==
    /\ seqN >= 3
    /\ \E q \in DOMAIN seq : seq[q].step[2] = "failed" /\ seq[q].step[1] = "succeeded"

\* invocation i of job j is an execution whose task has settled or whose
\* timeout has elapsed
Settled(j, i) ==
    inv[j][i].admitted /\ (inv[j][i].task \in {"succeeded", "failed"} \/ inv[j][i].timer = "fired")

\* invocation i of job j is an execution that a later call collided with
CollidedWith(j, i) ==
    /\ inv[j][i].admitted
    /\ \E k \in DOMAIN inv[j] : k > i /\ ~inv[j][k].admitted
    /\ \A k \in DOMAIN inv[j] : k > i => ~inv[j][k].admitted

\* a call rejected by the overlap check calls neither before, after nor
\* the task
C18_RejectedCallsNothing ==
    \A j \in Wrapped : \A i \in DOMAIN inv[j] :
        ~inv[j][i].admitted =>
            /\ inv[j][i].entry = "running"
            /\ inv[j][i].before = 0 /\ inv[j][i].after = 0
            /\ inv[j][i].task = "none" /\ inv[j][i].timer = "none"

\* a call rejected by the overlap check leaves job.status (running) and the
\* earlier invocations as they are
C18_RejectedChangesNothing ==
    \A j \in Wrapped :
        (Len(inv'[j]) = Len(inv[j]) + 1 /\ ~inv'[j][Len(inv'[j])].admitted) =>
            /\ status[j] = "running" /\ status'[j] = "running"
            /\ SubSeq(inv'[j], 1, Len(inv[j])) = inv[j]

\* the execution a rejected call collided with has made its own status
\* transition once it has settled
C18_CollidedStillTransitions ==
    \A j \in Wrapped : \A i \in DOMAIN inv[j] :
        (CollidedWith(j, i) /\ Settled(j, i)) =>
            /\ inv[j][i].st # "awaiting"
            /\ status[j] = IF inv[j][i].task = "succeeded" /\ inv[j][i].timer # "fired"
                           THEN "pending" ELSE "error"

\* C18 (as stated): a call of the prepared runnable rejected by the overlap
\* check leaves job.status unchanged (running) and calls neither before,
\* after nor the task; the execution it collided with is unaffected and
\* still makes its own status transition when it settles.
C18_OverlapFrame ==
    /\ [](C18_RejectedCallsNothing /\ C18_CollidedStillTransitions)
    /\ [][C18_RejectedChangesNothing]_vars

\* C19: after a timeout the invocation has ended with the TimeoutError and
\* the abandoned task goes on; when it later completes or fails, job.status
\* does not change and neither after nor onError is called.
C19_AbandonedTaskUnobserved ==
    /\ [](\A j \in Wrapped : \A i \in DOMAIN inv[j] :
            inv[j][i].timer = "fired" =>
                /\ inv[j][i].st # "awaiting"
                /\ inv[j][i].after = 0
                /\ inv[j][i].onError = (IF cfg[j].onError THEN 1 ELSE 0)
                /\ (IF cfg[j].onError THEN inv[j][i].onErrorArg.kind
                                      ELSE inv[j][i].err.kind) = "TimeoutError")
    /\ [][\A j \in Wrapped : \A i \in DOMAIN inv[j] :
            (inv[j][i].timer = "fired" /\ inv[j][i].task = "running"
                /\ inv'[j][i].task # "running") =>
                /\ status'[j] = status[j]
                /\ inv'[j][i] = [inv[j][i] EXCEPT !.task = inv'[j][i].task,
                                                  !.taskErr = inv'[j][i].taskErr]]_vars

\* an abandoned task has completed after its invocation timed out, and one
\* has failed
C19_Witness ==
    \E j \in Wrapped : \E i \in DOMAIN inv[j], k \in DOMAIN inv[j] :
        /\ inv[j][i].timer = "fired" /\ inv[j][i].task = "succeeded"
        /\ inv[j][k].timer = "fired" /\ inv[j][k].task = "failed"

\* C20: only the status running blocks a tick: a call of the prepared
\* runnable made while job.status is unset, pending or error is admitted:
\* before is called (seeing that status), the status becomes running and
\* the task is started.
C20_OnlyRunningBlocks ==
    /\ [](\A j \in Wrapped : \A i \in DOMAIN inv[j] :
            /\ inv[j][i].admitted <=> inv[j][i].entry \in {"unset", "pending", "error"}
            /\ inv[j][i].admitted =>
                 /\ inv[j][i].before = (IF cfg[j].before THEN 1 ELSE 0)
                 /\ cfg[j].before => inv[j][i].beforeStatus = inv[j][i].entry
                 /\ inv[j][i].task # "none")
    /\ [][\A j \in Wrapped :
            (Len(inv'[j]) = Len(inv[j]) + 1 /\ status[j] # "running") =>
                /\ status'[j] = "running"
                /\ inv'[j][Len(inv'[j])].task = "running"]_vars

\* calls made at the status unset, pending and error have all been admitted
C20_Witness ==
    \E j \in Wrapped :
        \A st \in {"unset", "pending", "error"} :
            \E i \in DOMAIN inv[j] : inv[j][i].entry = st /\ inv[j][i].admitted

\* the invocations of job j that started an execution of the task
Started(j) == {i \in DOMAIN inv[j] : inv[j][i].task # "none"}

\* the invocations of job j that passed the overlap check
Admitted(j) == {i \in DOMAIN inv[j] : inv[j][i].admitted}

\* C21: no backlog builds up for a supervised job: the executions of the
\* task ever started are exactly those of the admitted ticks, a tick
\* rejected by the overlap check never starts one later, and an execution
\* only ever starts in the step of the tick that was admitted.
C21_NoBacklog ==
    /\ [](\A j \in Wrapped : Started(j) = Admitted(j))
    /\ [][\A j \in Wrapped :
            /\ \A i \in DOMAIN inv[j] : ~inv[j][i].admitted => inv'[j][i] = inv[j][i]
            /\ Len(inv'[j]) = Len(inv[j]) =>
                   Cardinality({i \in DOMAIN inv'[j] : inv'[j][i].task # "none"})
                       = Cardinality(Started(j))]_vars

\* a tick was rejected, the execution it collided with has completed, and
\* only the next tick started a new execution
C21_Witness ==
    \E j \in Wrapped :
        /\ Len(inv[j]) >= 3
        /\ inv[j][1].admitted /\ inv[j][1].st = "resolved"
        /\ ~inv[j][2].admitted
        /\ inv[j][3].admitted
        /\ Cardinality(Started(j)) = 2

\* C22 (as stated): every invocation of a prepared runnable eventually ends
\* once its task has settled or its timeout has elapsed, with and without a
\* timeout, and job.status does not stay running forever after the task of
\* the invocation that set it has settled.
C22_EventuallyEnds ==
    \A j \in Jobs : \A i \in 1..MaxInv :
        /\ (i \in DOMAIN inv[j] /\ Settled(j, i))
              ~> (i \in DOMAIN inv[j] /\ inv[j][i].st # "awaiting")
        /\ (i \in DOMAIN inv[j] /\ LastAdmitted(j, i)
                /\ inv[j][i].task \in {"succeeded", "failed"})
              ~> (status[j] # "running")

\* C23: for a job with a timeout, when the task succeeds before the timer
\* elapses the timer is cancelled and the invocation succeeds with the
\* status pending; no TimeoutError is raised or handed to onError, and the
\* timer of that invocation never acts afterwards.
C23_TimerCancelled ==
    /\ [](\A j \in Wrapped : \A i \in DOMAIN inv[j] :
            (HasTimeout(j) /\ inv[j][i].admitted /\ inv[j][i].task = "succeeded"
                /\ inv[j][i].timer # "fired") =>
                /\ inv[j][i].timer = "cleared"
                /\ inv[j][i].st = "resolved"
                /\ inv[j][i].onError = 0
                /\ inv[j][i].err = NoErr /\ inv[j][i].onErrorArg = NoErr)
    /\ [][\A j \in Wrapped : \A i \in DOMAIN inv[j] :
            /\ (HasTimeout(j) /\ inv[j][i].timer = "armed" /\ inv[j][i].task = "running"
                    /\ inv'[j][i].task = "succeeded") =>
                   /\ inv'[j][i].timer = "cleared"
                   /\ status'[j] = "pending"
            /\ (inv[j][i].timer = "cleared" /\ inv[j][i].task = "succeeded") =>
                   inv'[j][i] = inv[j][i]]_vars

\* the task of a timeout job succeeded in time, and the job was ticked again
C23_Witness ==
    \E j \in Wrapped : \E i \in DOMAIN inv[j], k \in DOMAIN inv[j] :
        /\ HasTimeout(j) /\ cfg[j].onError
        /\ inv[j][i].task = "succeeded" /\ inv[j][i].timer = "cleared"
        /\ inv[j][i].st = "resolved"
        /\ k > i /\ inv[j][k].admitted

\* an admitted invocation of job j has ended in success
EndedInSuccess(j, i) ==
    inv[j][i].admitted /\ inv[j][i].st # "awaiting"
        /\ inv[j][i].task = "succeeded" /\ inv[j][i].timer # "fired"

\* an admitted invocation of job j has ended in failure
EndedInFailure(j, i) ==
    inv[j][i].admitted /\ inv[j][i].st # "awaiting" /\ ~EndedInSuccess(j, i)

\* C24 (as stated): for every admitted invocation of a prepared runnable
\* before has been called exactly once, and once the invocation has ended
\* exactly one of after (on success) and onError (on failure) has been
\* called, exactly once.
C24_ExactlyOneCallback ==
    \A j \in Wrapped : \A i \in DOMAIN inv[j] :
        inv[j][i].admitted =>
            /\ inv[j][i].before = 1
            /\ EndedInSuccess(j, i) => inv[j][i].after = 1 /\ inv[j][i].onError = 0
            /\ EndedInFailure(j, i) => inv[j][i].onError = 1 /\ inv[j][i].after = 0

\* C24 (amended): for every admitted invocation of a prepared runnable, each
\* callback counted where it was supplied: before has been called exactly once, at a
\* status other than running and with the task not started; once the
\* invocation has ended exactly one of after (on success) and onError (on
\* failure) has been called, exactly once, never both, and no callback is
\* called again afterwards.
C24_CallbackProtocol ==
    /\ [](\A j \in Wrapped : \A i \in DOMAIN inv[j] :
            inv[j][i].admitted =>
                /\ inv[j][i].before = (IF cfg[j].before THEN 1 ELSE 0)
                /\ cfg[j].before =>
                       /\ inv[j][i].beforeStatus \in {"unset", "pending", "error"}
                       /\ inv[j][i].beforeTask = "none"
                /\ inv[j][i].after + inv[j][i].onError <= 1
                /\ inv[j][i].st = "awaiting" =>
                       inv[j][i].after = 0 /\ inv[j][i].onError = 0
                /\ EndedInSuccess(j, i) =>
                       /\ inv[j][i].after = (IF cfg[j].after THEN 1 ELSE 0)
                       /\ inv[j][i].onError = 0
                /\ EndedInFailure(j, i) =>
                       /\ inv[j][i].onError = (IF cfg[j].onError THEN 1 ELSE 0)
                       /\ inv[j][i].after = 0)
    /\ [][\A j \in Wrapped : \A i \in DOMAIN inv[j] :
            inv[j][i].st # "awaiting" =>
                /\ inv'[j][i].before = inv[j][i].before
                /\ inv'[j][i].after = inv[j][i].after
                /\ inv'[j][i].onError = inv[j][i].onError]_vars

\* with all three callbacks supplied, one invocation has ended in success
\* and one in failure
C24_Witness ==
    \E j \in Wrapped : \E i \in DOMAIN inv[j], k \in DOMAIN inv[j] :
        /\ cfg[j].before /\ cfg[j].after /\ cfg[j].onError
        /\ EndedInSuccess(j, i) /\ inv[j][i].before = 1 /\ inv[j][i].after = 1
        /\ EndedInFailure(j, k) /\ inv[j][k].before = 1 /\ inv[j][k].onError = 1

====
